---------------------------- MODULE Spec2Model ----------------------------
(***************************************************************************)
(* Model of property_hunt_v2:                                              *)
(*   utils/details.py  - the asynchronous detail batch (SpecBatch) and     *)
(*                       parse_added_reduced (SpecDates)                   *)
(*   utils/links.py    - the paginated link collector (SpecLinks)          *)
(*   app.py            - the call site of the collector                    *)
(***************************************************************************)
EXTENDS Integers, Sequences, FiniteSets, TLC

VARIABLES
    \* ---- detail batch (utils/details.py) ----
    urls,        \* the list handed to scrape_details_batch
    N,           \* max_concurrency
    bpc,         \* position of scrape_details_batch: idle / running / returned / aborted
    sem,         \* value of the asyncio.Semaphore
    tpc,         \* per task (position in urls): pending / get / done / raised
    resp,        \* per task: what client.get produced for it (NoResp before)
    result,      \* per task: the value bound(url) returned (NoRec before)
    returned,    \* the list scrape_details_batch returned
    \* ---- link collector (utils/links.py) and its call site (app.py) ----
    search_url,  \* query of the search URL handed in: a sequence of <<name, value>>
    max_pages,   \* the page ceiling
    lpc,         \* position of collect_rightmove_links: start / loop / exit / returned / raised
    start_url,   \* query of the normalized URL
    index,       \* the running offset
    all_links,   \* the accumulated set of links
    iter,        \* iterations of "for _ in range(max_pages)" begun so far
    links,       \* app.py: links
    err,         \* app.py: err
    \* the run's history, kept for the properties
    reqs,        \* queries of the requests issued, in order
    served,      \* hrefs of every page that came back with status 200
    staleAt,     \* number of the first request whose page held no link not served before (0: none yet)
    failedAt,    \* number of the request that failed (0: none yet)
    failure,     \* how it failed: none / status / exception
    \* ---- parse_added_reduced (utils/details.py) ----
    text,        \* what the date patterns find in the text handed in
    today,       \* datetime.today().date(), as <<year, month, day>>
    dpc,         \* position of parse_added_reduced: call / done
    added_on,    \* the first value returned
    reduced_on   \* the second value returned

batchVars == <<urls, N, bpc, sem, tpc, resp, result, returned>>
linkVars == <<search_url, max_pages, lpc, start_url, index, all_links, iter,
              links, err, reqs, served, staleAt, failedAt, failure>>

dateVars == <<text, today, dpc, added_on, reduced_on>>

vars == <<batchVars, linkVars, dateVars>>

(***************************************************************************)
(* Bounds of the model                                                     *)
(***************************************************************************)
MaxUrls == 3
MaxConc == 3
MaxPages == 4
MaxParams == 2
MaxDaysAgo == 3

\* Listing URLs the batch may be handed (a URL may occur more than once).
Urls == {"https://www.rightmove.co.uk/properties/1",
         "https://www.rightmove.co.uk/properties/2"}

RECURSIVE SeqsUpTo(_, _)
SeqsUpTo(S, n) ==
    IF n = 0 THEN {<<>>}
    ELSE LET shorter == SeqsUpTo(S, n - 1)
         IN  shorter \cup {Append(s, x) : s \in {t \in shorter : Len(t) = n - 1}, x \in S}

Range(s) == {s[i] : i \in 1..Len(s)}

(***************************************************************************)
(* utils/details.py : parse_text_fields                                    *)
(* An optional value is <<>> (None) or <<v>>.  A page body is given by     *)
(* what the regular expressions find in it.                                *)
(***************************************************************************)
None == <<>>
Some(v) == <<v>>

Htmls ==
    { [price |-> Some(123500), beds |-> Some(2), postcode |-> Some("NR1 2AB"),
       tenure |-> Some("Leasehold"), lease |-> Some(99),
       service |-> Some("£95 PCM (combined)"), ground |-> None,
       offMarket |-> FALSE, added |-> Some("2024-01-05"), reduced |-> None,
       image |-> Some("https://media.rightmove.co.uk/1.jpg")],
      [price |-> None, beds |-> None, postcode |-> None,
       tenure |-> None, lease |-> None, service |-> None, ground |-> None,
       offMarket |-> TRUE, added |-> None, reduced |-> None, image |-> None] }

FieldKeys == {"price_gbp", "bedrooms", "postcode", "tenure", "lease_years",
              "service_charge", "ground_rent", "availability", "added_on",
              "reduced_on", "image_url"}

parse_text_fields(html) ==
    [price_gbp      |-> html.price,
     bedrooms       |-> html.beds,
     postcode       |-> html.postcode,
     tenure         |-> html.tenure,
     lease_years    |-> html.lease,
     service_charge |-> html.service,
     ground_rent    |-> html.ground,
     availability   |-> IF html.offMarket THEN "off_market" ELSE "on_market",
     added_on       |-> html.added,
     reduced_on     |-> html.reduced,
     image_url      |-> html.image]

(***************************************************************************)
(* What client.get(url) can produce: a response (status, body) or an       *)
(* exception (httpx.TimeoutException, httpx.ConnectError, ...).            *)
(***************************************************************************)
Statuses == {200, 204, 404}
ExcMessages == {"timed out"}

Outcomes ==
    [kind : {"response"}, status : {200}, html : Htmls]
    \cup [kind : {"response"}, status : Statuses \ {200}, html : {CHOOSE h \in Htmls : h.offMarket}]
    \cup [kind : {"exception"}, msg : ExcMessages]

NoResp == [kind |-> "none"]
NoRec == [pending |-> TRUE]

\* f"HTTP {r.status_code}"
HttpError(status) == "HTTP " \o ToString(status)

\* dict union: d with d[k] = v added (data["url"] = url)
WithUrl(d, url) ==
    [k \in DOMAIN d \cup {"url"} |-> IF k = "url" THEN url ELSE d[k]]

\* _fetch_one without its except clause: a transport exception escapes.
FetchOneNoCatch(url, o) ==
    IF o.kind = "exception" THEN [raised |-> TRUE, msg |-> o.msg]
    ELSE IF o.status # 200
         THEN [raised |-> FALSE, value |-> [url |-> url, error |-> HttpError(o.status)]]
         ELSE [raised |-> FALSE, value |-> WithUrl(parse_text_fields(o.html), url)]

\* _fetch_one that leaves the url out of what it returns.
FetchOneLosesUrl(url, o) ==
    IF o.kind = "exception"
    THEN [raised |-> FALSE, value |-> [url |-> "", error |-> o.msg]]
    ELSE IF o.status # 200
         THEN [raised |-> FALSE, value |-> [url |-> "", error |-> HttpError(o.status)]]
         ELSE [raised |-> FALSE, value |-> WithUrl(parse_text_fields(o.html), "")]

\* _fetch_one that keeps the parsed fields in an error record.
FetchOneDirtyError(url, o) ==
    IF o.kind = "exception"
    THEN [raised |-> FALSE, value |-> [url |-> url, error |-> o.msg]]
    ELSE IF o.status # 200
         THEN [raised |-> FALSE,
               value |-> [k \in FieldKeys \cup {"url", "error"} |->
                            IF k = "url" THEN url
                            ELSE IF k = "error" THEN HttpError(o.status)
                            ELSE parse_text_fields(o.html)[k]]]
         ELSE [raised |-> FALSE, value |-> WithUrl(parse_text_fields(o.html), url)]

\* _fetch_one(url, client), given what client.get produced: the value it
\* returns, or the exception that escapes it (none does).
FetchOne(url, o) ==
    IF o.kind = "exception"
    THEN [raised |-> FALSE, value |-> [url |-> url, error |-> o.msg]]
    ELSE IF o.status # 200
         THEN [raised |-> FALSE, value |-> [url |-> url, error |-> HttpError(o.status)]]
         ELSE [raised |-> FALSE, value |-> WithUrl(parse_text_fields(o.html), url)]

(***************************************************************************)
(* utils/details.py : scrape_details_batch / scrape_details_async          *)
(***************************************************************************)
Tasks == 1..Len(urls)

InFlight == {i \in Tasks : tpc[i] = "get"}

InitBatch ==
    /\ urls \in SeqsUpTo(Urls, MaxUrls)
    /\ N \in 1..MaxConc
    /\ bpc = "idle"
    /\ sem = 0
    /\ tpc = [i \in 1..Len(urls) |-> "pending"]
    /\ resp = [i \in 1..Len(urls) |-> NoResp]
    /\ result = [i \in 1..Len(urls) |-> NoRec]
    /\ returned = <<>>
    \* the link collector is not run
    /\ search_url = <<>> /\ max_pages = 1 /\ lpc = "start" /\ start_url = <<>>
    /\ index = 0 /\ all_links = {} /\ iter = 0 /\ links = <<>> /\ err = None
    /\ reqs = <<>> /\ served = {} /\ staleAt = 0 /\ failedAt = 0 /\ failure = "none"
    \* parse_added_reduced is not run
    /\ text = <<>> /\ today = <<>> /\ dpc = "call" /\ added_on = None /\ reduced_on = None

\* scrape_details_batch up to the gather: the empty list returns at once,
\* otherwise the semaphore is made and one task per list element is started.
\* (The caller's thread runs no event loop, so asyncio.run starts the batch;
\* the RuntimeError fallback of lines 237-243 runs the same coroutine.)
BatchStart ==
    /\ bpc = "idle"
    /\ IF urls = <<>>
       THEN /\ bpc' = "returned"
            /\ sem' = sem
       ELSE /\ bpc' = "running"
            /\ sem' = N
    /\ UNCHANGED <<urls, N, tpc, resp, result, returned>>
    /\ UNCHANGED <<linkVars, dateVars>>

\* "async with sem" entered without waiting for a free slot.
AcquireNoLimit(i) ==
    /\ bpc = "running"
    /\ tpc[i] = "pending"
    /\ sem' = sem - 1
    /\ tpc' = [tpc EXCEPT ![i] = "get"]
    /\ UNCHANGED <<urls, N, bpc, resp, result, returned>>
    /\ UNCHANGED <<linkVars, dateVars>>

\* bound(url): "async with sem" is entered and client.get(url) is issued.
\* Any waiting task may be the one let in: asyncio's own order (first come,
\* first served) is one of the orders this allows.
Acquire(i) ==
    /\ bpc = "running"
    /\ tpc[i] = "pending"
    /\ sem > 0
    /\ sem' = sem - 1
    /\ tpc' = [tpc EXCEPT ![i] = "get"]
    /\ UNCHANGED <<urls, N, bpc, resp, result, returned>>
    /\ UNCHANGED <<linkVars, dateVars>>

\* client.get(url) returns or raises; _fetch_one finishes, the semaphore is
\* released and the task ends (no await lies between these).
Finish(i, o) ==
    /\ bpc = "running"
    /\ tpc[i] = "get"
    /\ LET r == FetchOne(urls[i], o)
       IN  /\ tpc' = [tpc EXCEPT ![i] = IF r.raised THEN "raised" ELSE "done"]
           /\ result' = [result EXCEPT ![i] = IF r.raised THEN NoRec ELSE r.value]
    /\ resp' = [resp EXCEPT ![i] = o]
    /\ sem' = sem + 1
    /\ UNCHANGED <<urls, N, bpc, returned>>
    /\ UNCHANGED <<linkVars, dateVars>>

\* asyncio.gather(*tasks): raises the first exception a task raised, else
\* returns the tasks' values in the order of urls once all have finished.
Gather ==
    /\ bpc = "running"
    /\ \/ \E i \in Tasks : tpc[i] = "raised"
       \/ \A i \in Tasks : tpc[i] = "done"
    /\ IF \E i \in Tasks : tpc[i] = "raised"
       THEN /\ bpc' = "aborted"
            /\ returned' = returned
       ELSE /\ bpc' = "returned"
            /\ returned' = [i \in Tasks |-> result[i]]
    /\ UNCHANGED <<urls, N, sem, tpc, resp, result>>
    /\ UNCHANGED <<linkVars, dateVars>>

NextBatch ==
    \/ BatchStart
    \/ \E i \in Tasks : Acquire(i)
    \/ \E i \in Tasks, o \in Outcomes : Finish(i, o)
    \/ Gather


(***************************************************************************)
(* utils/links.py : URLs                                                   *)
(* A query string is a sequence of <<name, value>> pairs (decoded).  A     *)
(* listing link "https://www.rightmove.co.uk/properties/<id>" is the       *)
(* sequence of the digits of <id>: Python orders such strings as it orders *)
(* these sequences.                                                        *)
(***************************************************************************)
index_step == 24

ParamPairs == {<<"index", "24">>, <<"index", "x">>, <<"index", "">>,
               <<"sortType", "2">>, <<"sortType", "6">>}

\* str(n) is ToString(n); int(s) succeeds on the decimal strings.
IntRange == 0..(index_step * (MaxPages + 2))
IsIntString(s) == \E n \in IntRange : ToString(n) = s
IntOf(s) == CHOOSE n \in IntRange : ToString(n) = s

Last(s) == s[Len(s)]

RECURSIVE KeysInOrder(_)
KeysInOrder(query) ==
    IF query = <<>> THEN <<>>
    ELSE LET front == KeysInOrder(SubSeq(query, 1, Len(query) - 1))
             k == Last(query)[1]
         IN  IF k \in Range(front) THEN front ELSE Append(front, k)

RECURSIVE ValuesOf(_, _)
ValuesOf(query, k) ==
    IF query = <<>> THEN <<>>
    ELSE LET front == ValuesOf(SubSeq(query, 1, Len(query) - 1), k)
         IN  IF Last(query)[1] = k THEN Append(front, Last(query)[2]) ELSE front

RECURSIVE DropBlank(_)
DropBlank(query) ==
    IF query = <<>> THEN <<>>
    ELSE LET front == DropBlank(SubSeq(query, 1, Len(query) - 1))
         IN  IF Last(query)[2] = "" THEN front ELSE Append(front, Last(query))

\* urllib.parse.parse_qs: name -> list of its values, names in order of first
\* occurrence; blank values are dropped unless keep_blank_values.
parse_qs(query, keep_blank_values) ==
    LET kept == IF keep_blank_values THEN query ELSE DropBlank(query)
        ks == KeysInOrder(kept)
    IN  [keys |-> ks, vals |-> [k \in Range(ks) |-> ValuesOf(kept, k)]]

\* q[k] = [v]
SetParam(q, k, v) ==
    [keys |-> IF k \in Range(q.keys) THEN q.keys ELSE Append(q.keys, k),
     vals |-> [n \in Range(q.keys) \cup {k} |-> IF n = k THEN <<v>> ELSE q.vals[n]]]

\* The dict comprehension taking v[0] in place of v[-1].
FirstValuesOnly(q) ==
    [i \in 1..Len(q.keys) |-> <<q.keys[i], q.vals[q.keys[i]][1]>>]

\* urlencode({k: v[-1] for k, v in q.items()})
urlencode_last(q) ==
    [i \in 1..Len(q.keys) |-> <<q.keys[i], Last(q.vals[q.keys[i]])>>]

_normalize_search_url(query) ==
    LET q == parse_qs(query, TRUE)
    IN  urlencode_last(IF "index" \in Range(q.keys) THEN q ELSE SetParam(q, "index", "0"))

\* int(parse_qs(urlparse(start_url).query).get("index", ["0"])[0]), 0 on an exception
InitialIndex(start) ==
    LET q == parse_qs(start, FALSE)
        s == IF "index" \in Range(q.keys) THEN q.vals["index"][1] ELSE "0"
    IN  IF IsIntString(s) THEN IntOf(s) ELSE 0

\* url_this: the normalized URL with index set to the running offset
UrlThis(start, i) ==
    urlencode_last(SetParam(parse_qs(start, TRUE), "index", ToString(i)))

(***************************************************************************)
(* utils/links.py : _extract_links                                         *)
(* An href is <scheme and host, if any> /properties/<id> <query/fragment>; *)
(* id <<>> stands for a path that is no listing path (CARD_LINK_RE fails). *)
(***************************************************************************)
Hrefs ==
    { [abs |-> FALSE, id |-> <<9>>,       tail |-> ""],
      [abs |-> TRUE,  id |-> <<9>>,       tail |-> "?channel=BUY"],
      [abs |-> FALSE, id |-> <<1, 0>>,    tail |-> "#/?channel=RES_BUY"],
      [abs |-> FALSE, id |-> <<1, 0, 5>>, tail |-> ""],
      [abs |-> FALSE, id |-> <<>>,        tail |-> ""] }

ResultsPages == SUBSET Hrefs

\* What client.get(url_this) can return: any page with status 200; the body
\* that comes with another status is never read.
PageResponses ==
    [status : {200}, page : ResultsPages]
    \cup [status : Statuses \ {200}, page : {Hrefs}]

\* Python's order of strings, on digit sequences
RECURSIVE StrLess(_, _)
StrLess(a, b) ==
    IF b = <<>> THEN FALSE
    ELSE IF a = <<>> THEN TRUE
    ELSE IF a[1] # b[1] THEN a[1] < b[1]
    ELSE StrLess(Tail(a), Tail(b))

RECURSIVE sorted(_)
sorted(S) ==
    IF S = {} THEN <<>>
    ELSE LET m == CHOOSE x \in S : \A y \in S \ {x} : StrLess(x, y)
         IN  <<m>> \o sorted(S \ {m})

\* href.split("?", 1)[0].split("#", 1)[0]
StripTail(h) == [h EXCEPT !.tail = ""]

\* _absolute(href); the link is then named by its id
Absolute(h) == [h EXCEPT !.abs = TRUE].id

_extract_links(page) ==
    sorted({Absolute(StripTail(h)) : h \in {g \in page : StripTail(g).id # <<>>}})

(***************************************************************************)
(* utils/links.py : collect_rightmove_links, called from app.py            *)
(***************************************************************************)
\* all_links replaced by the page's links
UpdateReplaces(all, new) == Range(new)

\* all_links.update(new)
Update(all, new) == all \cup Range(new)

\* a stop rule that never fires
NothingNewNever(before, all) == FALSE

\* len(all_links) == before
NothingNew(before, all) == Cardinality(all) = before

\* a loop that runs once more than the ceiling
MorePagesOffByOne == iter <= max_pages

\* for _ in range(max_pages): another iteration is due
MorePages == iter < max_pages

\* a status check that lets every response through
StatusNeverStops(status) == FALSE

\* resp.status_code != 200
StatusStops(status) == status # 200

InitLinks ==
    /\ search_url \in SeqsUpTo(ParamPairs, MaxParams)
    /\ max_pages \in 1..MaxPages
    /\ lpc = "start"
    /\ start_url = <<>>
    /\ index = 0
    /\ all_links = {}
    /\ iter = 0
    /\ links = <<>>
    /\ err = None
    /\ reqs = <<>>
    /\ served = {}
    /\ staleAt = 0
    /\ failedAt = 0
    /\ failure = "none"
    \* the detail batch is not run
    /\ urls = <<>> /\ N = 1 /\ bpc = "idle" /\ sem = 0
    /\ tpc = <<>> /\ resp = <<>> /\ result = <<>> /\ returned = <<>>
    \* parse_added_reduced is not run
    /\ text = <<>> /\ today = <<>> /\ dpc = "call" /\ added_on = None /\ reduced_on = None

\* lines 43-53: normalize the URL and read the starting offset
Begin ==
    /\ lpc = "start"
    /\ start_url' = _normalize_search_url(search_url)
    /\ index' = InitialIndex(start_url')
    /\ lpc' = "loop"
    /\ UNCHANGED <<search_url, max_pages, all_links, iter, links, err,
                   reqs, served, staleAt, failedAt, failure>>
    /\ UNCHANGED <<batchVars, dateVars>>

\* one iteration of the loop in which client.get returns a response
PageResponse(r) ==
    /\ lpc = "loop"
    /\ MorePages
    /\ iter' = iter + 1
    /\ reqs' = Append(reqs, UrlThis(start_url, index))
    /\ IF StatusStops(r.status)
       THEN /\ lpc' = "exit"
            /\ UNCHANGED <<index, all_links>>
       ELSE LET before == Cardinality(all_links)
                all == Update(all_links, _extract_links(r.page))
            IN  /\ all_links' = all
                /\ IF NothingNew(before, all)
                   THEN /\ lpc' = "exit"
                        /\ index' = index
                   ELSE /\ lpc' = "loop"
                        /\ index' = index + index_step
    \* the history: what the server sent, whatever the code made of it
    /\ served' = IF r.status = 200 THEN served \cup r.page ELSE served
    /\ staleAt' = IF /\ staleAt = 0
                     /\ r.status = 200
                     /\ {h.id : h \in r.page} \subseteq {h.id : h \in served} \cup {<<>>}
                  THEN Len(reqs') ELSE staleAt
    /\ failedAt' = IF failedAt = 0 /\ r.status \notin 200..299 THEN Len(reqs') ELSE failedAt
    /\ failure' = IF failedAt = 0 /\ r.status \notin 200..299 THEN "status" ELSE failure
    /\ UNCHANGED <<search_url, max_pages, start_url, links, err>>
    /\ UNCHANGED <<batchVars, dateVars>>

\* one iteration in which client.get raises: nothing in links.py catches it,
\* the "except Exception" of app.py does
PageRaises(msg) ==
    /\ lpc = "loop"
    /\ MorePages
    /\ iter' = iter + 1
    /\ reqs' = Append(reqs, UrlThis(start_url, index))
    /\ lpc' = "raised"
    /\ failedAt' = IF failedAt = 0 THEN Len(reqs') ELSE failedAt
    /\ failure' = IF failedAt = 0 THEN "exception" ELSE failure
    /\ err' = Some(msg)
    /\ UNCHANGED <<search_url, max_pages, start_url, index, all_links, links,
                   served, staleAt>>
    /\ UNCHANGED <<batchVars, dateVars>>

\* the loop is left (break, or the range is used up) and sorted(all_links)
\* is returned to app.py
Return ==
    /\ \/ lpc = "exit"
       \/ lpc = "loop" /\ ~MorePages
    /\ lpc' = "returned"
    /\ links' = sorted(all_links)
    /\ UNCHANGED <<search_url, max_pages, start_url, index, all_links, iter, err,
                   reqs, served, staleAt, failedAt, failure>>
    /\ UNCHANGED <<batchVars, dateVars>>

NextLinks ==
    \/ Begin
    \/ \E r \in PageResponses : PageResponse(r)
    \/ \E msg \in ExcMessages : PageRaises(msg)
    \/ Return


(***************************************************************************)
(* utils/details.py : _norm_date_dmy, parse_added_reduced                  *)
(* A date is <<year, month, day>>.  The text is given by what each pattern *)
(* finds first: the d/m/y after "Added on" (_ADDED_DATE), the phrases      *)
(* "added yesterday" and "added today", the N of "added N days ago"        *)
(* (_ADDED_REL); the same for "reduced".  A year is its digits: how many   *)
(* (\d{2,4}) and their value.                                              *)
(***************************************************************************)
IsLeap(y) == (y % 4 = 0 /\ y % 100 # 0) \/ y % 400 = 0

DaysInMonth(y, m) ==
    IF m = 2 THEN (IF IsLeap(y) THEN 29 ELSE 28)
    ELSE IF m \in {4, 6, 9, 11} THEN 30 ELSE 31

\* date - timedelta(days=1)
PrevDay(date) ==
    LET y == date[1]
        m == date[2]
        d == date[3]
    IN  IF d > 1 THEN <<y, m, d - 1>>
        ELSE IF m > 1 THEN <<y, m - 1, DaysInMonth(y, m - 1)>>
        ELSE <<y - 1, 12, 31>>

\* date - timedelta(days=n)
RECURSIVE MinusDays(_, _)
MinusDays(date, n) == IF n = 0 THEN date ELSE MinusDays(PrevDay(date), n - 1)

\* if len(y) == 2: y = "20" + y
FullYear(y) == IF y.digits = 2 THEN [digits |-> 4, val |-> 2000 + y.val] ELSE y

\* datetime.strptime(f"{d}/{m}/{y}", "%d/%m/%Y") succeeds: %Y takes four digits
StrptimeOk(d, m, y) ==
    /\ y.digits = 4
    /\ y.val >= 1
    /\ m \in 1..12
    /\ d \in 1..DaysInMonth(y.val, m)

_norm_date_dmy(dmy) ==
    LET y == FullYear(dmy.y)
    IN  IF StrptimeOk(dmy.d, dmy.m, y) THEN Some(<<y.val, dmy.m, dmy.d>>) ELSE None

AbsoluteDates ==
    { [d |-> 5,  m |-> 1,  y |-> [digits |-> 2, val |-> 24]],     \* 05/01/24
      [d |-> 29, m |-> 2,  y |-> [digits |-> 4, val |-> 2024]],   \* 29/02/2024
      [d |-> 31, m |-> 2,  y |-> [digits |-> 4, val |-> 2024]],   \* 31/02/2024
      [d |-> 12, m |-> 25, y |-> [digits |-> 2, val |-> 24]],     \* 12/25/24
      [d |-> 1,  m |-> 3,  y |-> [digits |-> 3, val |-> 202]] }   \* 1/3/202

Phrases ==
    [abs : {None} \cup {Some(x) : x \in AbsoluteDates},
     yesterday : BOOLEAN,
     today : BOOLEAN,
     ago : {None, Some(1), Some(MaxDaysAgo)}]

Todays == {<<2024, 3, 1>>, <<2025, 1, 1>>}

\* the relative phrases tried before the absolute date
ResolveRelativeFirst(ph, now) ==
    IF ph.yesterday THEN Some(PrevDay(now))
    ELSE IF ph.today THEN Some(now)
    ELSE IF ph.ago # None THEN Some(MinusDays(now, ph.ago[1]))
    ELSE IF ph.abs # None THEN _norm_date_dmy(ph.abs[1]) ELSE None

\* lines 102-117 for "added", 103-126 for "reduced": the absolute date if it
\* normalizes, else the first relative phrase of yesterday, today, N days ago
Resolve(ph, now) ==
    LET absolute == IF ph.abs # None THEN _norm_date_dmy(ph.abs[1]) ELSE None
    IN  IF absolute # None THEN absolute
        ELSE IF ph.yesterday THEN Some(PrevDay(now))
        ELSE IF ph.today THEN Some(now)
        ELSE IF ph.ago # None THEN Some(MinusDays(now, ph.ago[1]))
        ELSE None

InitDates ==
    /\ text \in [added : Phrases, reduced : Phrases]
    /\ today \in Todays
    /\ dpc = "call"
    /\ added_on = None
    /\ reduced_on = None
    \* neither the batch nor the link collector is run
    /\ urls = <<>> /\ N = 1 /\ bpc = "idle" /\ sem = 0
    /\ tpc = <<>> /\ resp = <<>> /\ result = <<>> /\ returned = <<>>
    /\ search_url = <<>> /\ max_pages = 1 /\ lpc = "start" /\ start_url = <<>>
    /\ index = 0 /\ all_links = {} /\ iter = 0 /\ links = <<>> /\ err = None
    /\ reqs = <<>> /\ served = {} /\ staleAt = 0 /\ failedAt = 0 /\ failure = "none"

parse_added_reduced ==
    /\ dpc = "call"
    /\ added_on' = Resolve(text.added, today)
    /\ reduced_on' = Resolve(text.reduced, today)
    /\ dpc' = "done"
    /\ UNCHANGED <<text, today>>
    /\ UNCHANGED <<batchVars, linkVars>>

NextDates == parse_added_reduced

(***************************************************************************)
(* Specifications                                                          *)
(***************************************************************************)
SpecBatch == InitBatch /\ [][NextBatch]_vars

SpecLinks == InitLinks /\ [][NextLinks]_vars

SpecDates == InitDates /\ [][NextDates]_vars



(***************************************************************************)
(* Properties                                                              *)
(***************************************************************************)

\* C1: while the batch runs with max_concurrency = N >= 1, the number of URLs
\* whose client.get has been issued and has not yet returned or raised is at
\* most N, in every reachable state.
C1_InFlightAtMostN == Cardinality(InFlight) <= N

\* N = 2 requests are outstanding and a third URL waits at the semaphore.
C1_Witness ==
    /\ N = 2
    /\ Len(urls) = 3
    /\ Cardinality(InFlight) = 2
    /\ \E i \in Tasks : tpc[i] = "pending"

C2_State ==
    /\ bpc # "aborted"
    /\ \A i \in Tasks : tpc[i] # "raised"
    /\ bpc = "returned" =>
         /\ \A i \in Tasks : tpc[i] = "done"
         /\ Len(returned) = Len(urls)
         /\ \A i \in Tasks : returned[i].url = urls[i] /\ returned[i] = result[i]

C2_Step ==
    \A i \in Tasks : tpc[i] = "done" => tpc'[i] = "done" /\ result'[i] = result[i]

\* C2: whatever each URL's outcome (200, another status, an exception), the
\* batch never aborts; it returns only after every per-URL task has finished,
\* with exactly one record per input URL, in the input's order; and once a
\* URL's record exists, nothing that happens to another URL changes or
\* removes it.
C2_BatchNeverAborts == []C2_State /\ [][C2_Step]_vars

\* A batch of three has returned in which one URL raised, one got a 404 and
\* one got a 200.
C2_Witness ==
    /\ bpc = "returned"
    /\ Len(returned) = 3
    /\ \E i, j, k \in Tasks :
         /\ resp[i].kind = "exception"
         /\ resp[j].kind = "response" /\ resp[j].status = 404
         /\ resp[k].kind = "response" /\ resp[k].status = 200

IsErrorRecord(r) == DOMAIN r = {"url", "error"}
IsPopulatedRecord(r) == DOMAIN r = FieldKeys \cup {"url"}

\* C3 as stated: every record is an error record (url and error only) or a
\* populated record (url and the extracted fields, no error), and the error
\* key is present only when the fetch failed with a non-2xx status or an
\* exception.
C3_Original ==
    \A i \in Tasks : tpc[i] = "done" =>
        /\ IsErrorRecord(result[i]) \/ IsPopulatedRecord(result[i])
        /\ "error" \in DOMAIN result[i] =>
             \/ resp[i].kind = "exception"
             \/ resp[i].status \notin 200..299

\* C3, amended: every record is an error record (url and error only) or a
\* populated record (url and the eleven extracted fields, no error); it is an
\* error record exactly when the status was not 200 (error = "HTTP <status>",
\* a 2xx status other than 200 included) or an exception was raised (error =
\* its message).
C3_ErrorIffNot200 ==
    \A i \in Tasks : tpc[i] = "done" =>
        /\ IsErrorRecord(result[i]) \/ IsPopulatedRecord(result[i])
        /\ result[i].url = urls[i]
        /\ IF resp[i].kind = "exception"
           THEN IsErrorRecord(result[i]) /\ result[i].error = resp[i].msg
           ELSE IF resp[i].status # 200
                THEN /\ IsErrorRecord(result[i])
                     /\ result[i].error = "HTTP " \o ToString(resp[i].status)
                ELSE IsPopulatedRecord(result[i])

\* The returned list holds the error record of a 204 beside a populated record.
C3_Witness ==
    /\ bpc = "returned"
    /\ \E i, j \in Tasks :
         /\ resp[i].kind = "response" /\ resp[i].status = 204
         /\ IsErrorRecord(returned[i]) /\ returned[i].error = "HTTP 204"
         /\ resp[j].kind = "response" /\ resp[j].status = 200
         /\ IsPopulatedRecord(returned[j])

\* C8 as stated: no two records of one batch result carry the same url,
\* whatever URL sequence the batch was handed.
C8_Original ==
    bpc = "returned" =>
        \A i, j \in 1..Len(returned) : i # j => returned[i].url # returned[j].url

\* C8, amended: the batch does not deduplicate; each url is carried by as
\* many records as the input holds occurrences of it, so no two records carry
\* the same url exactly when the input sequence holds no URL twice.
C8_UrlsAsOftenAsInInput ==
    bpc = "returned" =>
        \A u \in Range(urls) \cup {returned[i].url : i \in 1..Len(returned)} :
            Cardinality({i \in 1..Len(returned) : returned[i].url = u})
                = Cardinality({i \in 1..Len(urls) : urls[i] = u})

\* A batch of two different URLs has returned, its two records differing in url.
C8_Witness ==
    /\ bpc = "returned"
    /\ Len(urls) = 2
    /\ urls[1] # urls[2]
    /\ returned[1].url # returned[2].url

ServedLinks == {h.id : h \in served} \ {<<>>}

\* C4: the first results page whose links add nothing to the accumulated set
\* is the last page requested, whatever the page ceiling.
C4_StopsAtFirstStalePage == staleAt # 0 => Len(reqs) = staleAt

\* Pages 1 and 2 added links, page 3 added none; the run returned after 3
\* requests under a ceiling above 3.
C4_Witness ==
    /\ lpc = "returned"
    /\ staleAt = 3
    /\ Len(reqs) = 3
    /\ max_pages > 3

\* C5: one run issues at most max_pages results-page requests.
C5_AtMostMaxPages == Len(reqs) <= max_pages

\* With max_pages = 1 the run returned after one request whose page held links.
C5_Witness ==
    /\ lpc = "returned"
    /\ max_pages = 1
    /\ Len(reqs) = 1
    /\ links # <<>>

\* C6 as stated: a failed results-page request (non-2xx status, connection
\* error, timeout) stops the pagination, the links collected so far are
\* returned, and no exception reaches the caller.
C6_Original ==
    failure # "none" =>
        /\ Len(reqs) = failedAt
        /\ lpc # "raised"
        /\ err = None
        /\ lpc = "returned" => Range(links) = ServedLinks

\* C6, amended: a non-2xx status stops the pagination and the links of the
\* earlier pages are returned, sorted; a connection error or timeout stops the
\* pagination too, but leaves collect_rightmove_links as an exception: app.py
\* catches it, reports its message and is left with no links.
C6_StatusStopsExceptionPropagates ==
    /\ failure # "none" => Len(reqs) = failedAt
    /\ failure = "status" =>
         /\ lpc \in {"exit", "returned"}
         /\ err = None
         /\ lpc = "returned" => links = sorted(ServedLinks)
    /\ failure = "exception" =>
         /\ lpc = "raised"
         /\ err # None
         /\ links = <<>>

\* The second request raised after the first page had given links: the
\* caller holds the message and no links.
C6_Witness ==
    /\ failure = "exception"
    /\ failedAt = 2
    /\ all_links # {}
    /\ err # None
    /\ links = <<>>

IndexParams(query) == SelectSeq(query, LAMBDA p : p[1] = "index")
OtherParams(query) == SelectSeq(query, LAMBDA p : p[1] # "index")

\* the offset value of the input: its last index parameter, 0 when there is
\* none or it is no integer
I0 ==
    LET idx == IndexParams(search_url)
    IN  IF idx # <<>> /\ IsIntString(Last(idx)[2]) THEN IntOf(Last(idx)[2]) ELSE 0

OffsetsFollow ==
    \A k \in 1..Len(reqs) :
        IndexParams(reqs[k]) = << <<"index", ToString(I0 + index_step * (k - 1))>> >>

\* the offset moves only by a request whose page grew the set, and then by 24
OffsetStep ==
    (lpc = "loop" /\ index' # index) =>
        /\ index' = index + index_step
        /\ Len(reqs') = Len(reqs) + 1
        /\ all_links \subseteq all_links' /\ all_links' # all_links

C10_State ==
    /\ OffsetsFollow
    /\ \A k \in 1..Len(reqs) :
         LET sent == OtherParams(reqs[k])
             given == OtherParams(search_url)
         IN  /\ {p[1] : p \in Range(sent)} = {p[1] : p \in Range(given)}
             /\ \A i, j \in 1..Len(sent) : sent[i][1] = sent[j][1] => i = j
             /\ \A p \in Range(sent) :
                  p[2] = Last(SelectSeq(given, LAMBDA g : g[1] = p[1]))[2]

RelativePresent(ph) == ph.yesterday \/ ph.today \/ ph.ago # None

\* C9 as stated: whenever the absolute pattern and a relative phrase are both
\* in the text, the date is the one the absolute pattern gives, for added_on
\* and for reduced_on alike.
C9_Original ==
    dpc = "done" =>
        /\ (text.added.abs # None /\ RelativePresent(text.added)) =>
             added_on = _norm_date_dmy(text.added.abs[1])
        /\ (text.reduced.abs # None /\ RelativePresent(text.reduced)) =>
             reduced_on = _norm_date_dmy(text.reduced.abs[1])

\* a d/m/y that names a day of the calendar, its year in 2 or 4 digits
IsCalendarDate(dmy) ==
    /\ dmy.y.digits \in {2, 4}
    /\ dmy.m \in 1..12
    /\ dmy.d >= 1
    /\ dmy.d <= DaysInMonth(IF dmy.y.digits = 2 THEN 2000 + dmy.y.val ELSE dmy.y.val, dmy.m)
    /\ (dmy.y.digits = 4 => dmy.y.val >= 1)

IsoOf(dmy) ==
    Some(<<IF dmy.y.digits = 2 THEN 2000 + dmy.y.val ELSE dmy.y.val, dmy.m, dmy.d>>)

RelativeDate(ph, now) ==
    IF ph.yesterday THEN Some(PrevDay(now))
    ELSE IF ph.today THEN Some(now)
    ELSE Some(MinusDays(now, ph.ago[1]))

AbsoluteFirst(ph, out) ==
    /\ (ph.abs # None /\ IsCalendarDate(ph.abs[1])) => out = IsoOf(ph.abs[1])
    /\ (ph.abs # None /\ ~IsCalendarDate(ph.abs[1]) /\ RelativePresent(ph)) =>
         out = RelativeDate(ph, today)

\* C9, amended: whenever the absolute pattern matches a d/m/y that is a date
\* of the calendar, the result is that date, whatever relative phrase is in
\* the text; when the matched d/m/y is no such date (31/02/2024, 12/25/24, a
\* three-digit year), the relative phrase decides.  For added_on and for
\* reduced_on alike.
C9_ValidAbsoluteFirst ==
    dpc = "done" =>
        /\ AbsoluteFirst(text.added, added_on)
        /\ AbsoluteFirst(text.reduced, reduced_on)

\* "Added on 05/01/24" beside "added today" gave 2024-01-05, and "Reduced on
\* 29/02/2024" beside "reduced 3 days ago" gave 2024-02-29.
C9_Witness ==
    /\ dpc = "done"
    /\ text.added.abs = Some([d |-> 5, m |-> 1, y |-> [digits |-> 2, val |-> 24]])
    /\ text.added.today
    /\ added_on = Some(<<2024, 1, 5>>)
    /\ text.reduced.abs = Some([d |-> 29, m |-> 2, y |-> [digits |-> 4, val |-> 2024]])
    /\ text.reduced.ago = Some(MaxDaysAgo)
    /\ reduced_on = Some(<<2024, 2, 29>>)

=============================================================================
